---- MODULE Spec2Model ----
(***************************************************************************)
(* Xetra ETL: the meta-file (ledger) reconciliation of MetaProcess, the    *)
(* S3 connector, and the XetraETL pipeline (extract, transform_report1,    *)
(* load_to_s3), modelled from the Python sources.                          *)
(*                                                                         *)
(* Strings that the program compares or parses (dates, keys) are modelled  *)
(* as sequences of characters; a character is a digit 0..9, Dash or Blank, *)
(* ordered as in ASCII (Blank < Dash < digits).  A python `date` is its    *)
(* ordinal: the number of days since January 1st of Year.                  *)
(***************************************************************************)
EXTENDS Integers, Sequences, FiniteSets, TLC

VARIABLES
    src_first_extract_date, \* XetraSourceConfig.src_first_extract_date (a string)
    trg_format,             \* XetraTargetConfig.trg_format
    trg_bucket,             \* the bucket s3_bucket_trg is connected to
    today,                  \* datetime.today().date(), as an ordinal
    meta_file,              \* per bucket: the object stored under meta_key
    src_objects,            \* the source bucket's trade files: key -> rows
    trg_objects,            \* the report objects of the target bucket
    etl,                    \* the XetraETL instance of the current run
    runs,                   \* number of XetraETL instances constructed so far
    appends,                \* history: what each run appended to the ledger
    trail,                  \* history: the last direct calls of MetaProcess
    xf,                     \* a direct call of transform_report1
    s3,                     \* a bucket and the last direct calls of its connector
    second,                 \* datetime.today(): the seconds since midnight
    race                    \* two update_meta_file calls on one meta file: their positions

vars == <<src_first_extract_date, trg_format, trg_bucket, today, meta_file,
          src_objects, trg_objects, etl, runs, appends, trail, xf, s3, second, race>>

----------------------------------------------------------------------------
(* Bounds of the model *)

\* the calendar year the modelled dates lie in
Year == 2021
\* ordinal of the first calendar day "today" and the first date range over
CalStart == 119
\* number of calendar days "today" and the first date range over
CalDays == 3
\* rows of a ledger that exists before the first run
MaxInitRows == 1
\* rows a ledger may hold before further updates are cut off
MaxLedgerRows == 5
\* XetraETL instances constructed in one behaviour
MaxRuns == 2
\* rows of a table handed to transform_report1 directly
MaxRows == 2
\* seconds after midnight the wall clock ticks through
MaxSeconds == 1
\* direct MetaProcess calls remembered in trail: as many as the round trip
\* window, update, window has
TrailLen == Len(<<"return_date_list", "update_meta_file", "return_date_list">>)

----------------------------------------------------------------------------
(* Characters and strings *)

Blank == 0 - 2
Underscore == 0 - 5
Dash == 0 - 1

Max(a, b) == IF a >= b THEN a ELSE b

SetMin(S) == CHOOSE x \in S : \A y \in S : x <= y

SetMax(S) == CHOOSE x \in S : \A y \in S : x >= y

\* Python's < on str: the first differing character decides, a proper
\* prefix is smaller
RECURSIVE StrLess(_, _)
StrLess(a, b) ==
    IF b = <<>> THEN FALSE
    ELSE IF a = <<>> THEN TRUE
    ELSE IF a[1] # b[1] THEN a[1] < b[1]
    ELSE StrLess(Tail(a), Tail(b))

\* Python's >= on str
StrGE(a, b) == ~StrLess(a, b)

\* str.startswith / the Prefix filter of the bucket listing
StartsWith(s, p) == Len(p) <= Len(s) /\ SubSeq(s, 1, Len(p)) = p

\* decimal digits of n without leading zeros
RECURSIVE Digits(_)
Digits(n) == IF n < 10 THEN <<n>> ELSE Digits(n \div 10) \o <<n % 10>>

\* decimal digits of n, zero-padded to width w
RECURSIVE Padded(_, _)
Padded(n, w) == IF w = 0 THEN <<>> ELSE Padded(n \div 10, w - 1) \o <<n % 10>>

\* the number a string of digits denotes
RECURSIVE NumVal(_)
NumVal(s) == IF s = <<>> THEN 0 ELSE NumVal(SubSeq(s, 1, Len(s) - 1)) * 10 + s[Len(s)]

----------------------------------------------------------------------------
(* The calendar (datetime.date, timedelta, strftime, strptime) *)

IsLeap(y) == (y % 4 = 0 /\ y % 100 # 0) \/ y % 400 = 0

DaysInMonth(y, m) ==
    IF m = 2 THEN (IF IsLeap(y) THEN 29 ELSE 28)
    ELSE IF m \in {4, 6, 9, 11} THEN 30 ELSE 31

\* the date with ordinal n (days since Year-01-01), searched from month m
RECURSIVE FromOrdinalFrom(_, _)
FromOrdinalFrom(n, m) ==
    IF n < DaysInMonth(Year, m) THEN [year |-> Year, month |-> m, day |-> n + 1]
    ELSE FromOrdinalFrom(n - DaysInMonth(Year, m), m + 1)

FromOrdinal(n) == FromOrdinalFrom(n, 1)

\* the ordinal of a date of Year
RECURSIVE DaysBefore(_)
DaysBefore(m) == IF m = 1 THEN 0 ELSE DaysBefore(m - 1) + DaysInMonth(Year, m - 1)

ToOrdinal(d) == DaysBefore(d.month) + d.day - 1

\* date.strftime("%Y-%m-%d") of a date record: every field zero-padded
strftime_ymd(d) ==
    Padded(d.year, 4) \o <<Dash>> \o Padded(d.month, 2) \o <<Dash>> \o Padded(d.day, 2)

\* strftime of the date with ordinal n
strftime(n) == strftime_ymd(FromOrdinal(n))

\* datetime.strptime(s, "%Y-%m-%d").date(): the fields between the dashes, each
\* read as a number; month and day are accepted with or without a leading zero
strptime(s) ==
    LET dashes == {i \in DOMAIN s : s[i] = Dash}
        p1 == SetMin(dashes)
        p2 == SetMax(dashes)
    IN  ToOrdinal([year  |-> NumVal(SubSeq(s, 1, p1 - 1)),
                   month |-> NumVal(SubSeq(s, p1 + 1, p2 - 1)),
                   day   |-> NumVal(SubSeq(s, p2 + 1, Len(s)))])

\* pd.to_datetime(column).dt.date of one cell
to_datetime(s) == strptime(s)

\* the same date written without zero padding ("2021-5-1")
Unpadded(n) ==
    LET d == FromOrdinal(n)
    IN  Digits(d.year) \o <<Dash>> \o Digits(d.month) \o <<Dash>> \o Digits(d.day)

\* datetime(9999, 12, 1).date().strftime(META_DATE_FORMAT)
Sentinel == strftime_ymd([year |-> 9999, month |-> 12, day |-> 1])

\* datetime.today().strftime(META_PROCESS_DATE_FORMAT); the time of day is
\* not modelled and reads 00
ProcessStamp(day) == strftime(day) \o <<Blank, 0, 0>>

Days == CalStart .. (CalStart + CalDays - 1)

\* the values of src_first_extract_date: each day, padded and unpadded
FirstDates == {strftime(n) : n \in Days} \cup {Unpadded(n) : n \in Days}

----------------------------------------------------------------------------
(* Tables and stored objects *)

META_SOURCE_DATE_COLUMN == "source_date"
META_PROCESS_COL == "datetime_of_processing"
META_FILE_FORMAT == "csv"
MetaColumns == <<META_SOURCE_DATE_COLUMN, META_PROCESS_COL>>

Buckets == {"src", "trg"}
OkIO == "ok"
\* a ClientError whose code is not NoSuchKey
OtherClientError == "ClientError"
IO == {OkIO, OtherClientError}

\* no object under the key
AbsentObj == [exists |-> FALSE, enc |-> "none", cols |-> <<>>, rows |-> <<>>]

\* a stored object: its encoding, and the header and the rows of its body
StoredObj(enc, cols, rows) == [exists |-> TRUE, enc |-> enc, cols |-> cols, rows |-> rows]

\* The cells of a DataFrame are strings (sequences of characters), integers
\* (IntMark, then the decimal digits, with a Dash first when negative) or
\* missing (NaN).  Floats are not modelled.
IntMark == 0 - 3
NaNMark == 0 - 4
NaN == <<NaNMark>>

IntCell(n) == IF n < 0 THEN <<IntMark, Dash>> \o Digits(0 - n) ELSE <<IntMark>> \o Digits(n)

IsNaN(c) == c = NaN

IsIntCell(c) == c # <<>> /\ c[1] = IntMark

\* the integer of an integer cell
IntOf(c) == IF c[2] = Dash THEN 0 - NumVal(SubSeq(c, 3, Len(c))) ELSE NumVal(Tail(c))

\* DataFrame.to_csv(index=False) of one cell: the digits of an integer, nothing
\* for a missing value, a string as it is
CsvField(c) == IF IsNaN(c) THEN <<>> ELSE IF IsIntCell(c) THEN Tail(c) ELSE c

\* DataFrame.to_csv(index=False): the fields of every row
to_csv(rows) == [i \in DOMAIN rows |-> [j \in DOMAIN rows[i] |-> CsvField(rows[i][j])]]

\* a field that pd.read_csv reads as a number: an optional sign and digits
IsNumeric(f) ==
    LET d == IF f # <<>> /\ f[1] = Dash THEN Tail(f) ELSE f
    IN  d # <<>> /\ \A i \in DOMAIN d : d[i] \in 0 .. 9

\* the integer cell of a numeric field (leading zeros are lost)
ParseInt(f) == IF f[1] = Dash THEN IntCell(0 - NumVal(Tail(f))) ELSE IntCell(NumVal(f))

\* pd.read_csv: the type of a column is inferred from its fields; a column all
\* of whose fields are numeric or empty becomes numbers, any other column
\* strings; an empty field is a missing value
read_csv(fields) ==
    [i \in DOMAIN fields |->
        [j \in DOMAIN fields[i] |->
            IF fields[i][j] = <<>> THEN NaN
            ELSE IF \A k \in DOMAIN fields : fields[k][j] = <<>> \/ IsNumeric(fields[k][j])
            THEN ParseInt(fields[i][j])
            ELSE fields[i][j]]]

\* dataframe.isna().all().all()
AllNaN(rows) == \A i \in DOMAIN rows : \A j \in DOMAIN rows[i] : IsNaN(rows[i][j])

\* index of column c in a table (0 when there is none)
ColIndex(cols, c) ==
    IF \E i \in DOMAIN cols : cols[i] = c
    THEN CHOOSE i \in DOMAIN cols : cols[i] = c
    ELSE 0

\* what read_csv_to_df_ok gives when it does not return a table
NoTable(e) == [raised |-> e, none |-> TRUE, cols |-> <<>>, rows |-> <<>>]

\* S3BucketConnector.read_csv_to_df_ok: the get fails (NoSuchKey or another
\* ClientError), or the body is not csv text (the bytes of a parquet file are
\* not decoded and parsed to the table), or the parsed table is returned, or
\* None for a table without rows or without any value
read_csv_to_df_ok(obj, io) ==
    IF io = OtherClientError THEN NoTable(OtherClientError)
    ELSE IF ~obj.exists THEN NoTable("NoSuchKey")
    ELSE IF obj.enc # "csv" THEN NoTable("UnicodeDecodeError")
    ELSE IF obj.rows = <<>> \/ AllNaN(read_csv(obj.rows)) THEN NoTable("none")
    ELSE [raised |-> "none", none |-> FALSE, cols |-> obj.cols, rows |-> read_csv(obj.rows)]

\* mutant of write_df_to_s3: the check for an empty table is missing
write_df_to_s3_NoEmptyCheck(obj, cols, rows, file_format) ==
    IF file_format = "csv"
    THEN [raised |-> "none", ret |-> "True", obj |-> StoredObj("csv", cols, to_csv(rows)),
          wrote |-> TRUE]
    ELSE IF file_format = "parquet"
    THEN [raised |-> "none", ret |-> "True", obj |-> StoredObj("parquet", cols, rows),
          wrote |-> TRUE]
    ELSE [raised |-> "WrongFormatException", ret |-> "None", obj |-> obj, wrote |-> FALSE]

\* S3BucketConnector.write_df_to_s3 of a table under one key: nothing for an
\* empty table, the object replaced by the csv text or the parquet file of the
\* table, WrongFormatException otherwise
write_df_to_s3(obj, cols, rows, file_format) ==
    IF rows = <<>> THEN [raised |-> "none", ret |-> "None", obj |-> obj, wrote |-> FALSE]
    ELSE IF file_format = "csv"
    THEN [raised |-> "none", ret |-> "True", obj |-> StoredObj("csv", cols, to_csv(rows)),
          wrote |-> TRUE]
    ELSE IF file_format = "parquet"
    THEN [raised |-> "none", ret |-> "True", obj |-> StoredObj("parquet", cols, rows),
          wrote |-> TRUE]
    ELSE [raised |-> "WrongFormatException", ret |-> "None", obj |-> obj, wrote |-> FALSE]

----------------------------------------------------------------------------
(* MetaProcess *)

\* the result of return_date_list when it raises
RdlRaised(e) == [raised |-> e, min_date |-> <<>>, return_dates |-> <<>>]

\* range(0, (today - start_date).days + 1) mapped to start_date + x
DateRange(start_date, now) ==
    [x \in 1 .. Max(0, now - start_date + 1) |-> start_date + (x - 1)]

\* mutant of ReturnDatesNoMeta: the list starts at the first date, the
\* lookback day is left out
ReturnDatesNoMeta_NoLookback(first_date, start_date, now) ==
    [raised |-> "none",
     min_date |-> first_date,
     return_dates |-> [i \in DOMAIN DateRange(start_date + 1, now) |->
                          strftime(DateRange(start_date + 1, now)[i])]]

\* the except branch of return_date_list for NoSuchKey: every date from
\* start_date until today, formatted, and first_date as it was given
ReturnDatesNoMeta(first_date, start_date, now) ==
    [raised |-> "none",
     min_date |-> first_date,
     return_dates |-> [i \in DOMAIN DateRange(start_date, now) |->
                          strftime(DateRange(start_date, now)[i])]]

\* mutant of ReturnDatesFromMeta: the lookback day counts as a date to process
\* (set(date_list) instead of set(date_list[1:]))
ReturnDatesFromMeta_LookbackCounted(df, start_date, now) ==
    LET date_list == DateRange(start_date, now)
        col == ColIndex(df.cols, META_SOURCE_DATE_COLUMN)
        processed_dates == {to_datetime(df.rows[i][col]) : i \in DOMAIN df.rows}
        dates_missing == {date_list[i] : i \in 1 .. Len(date_list)} \ processed_dates
        min_date == SetMin(dates_missing) - 1
    IN  IF dates_missing # {}
        THEN [raised |-> "none",
              min_date |-> strftime(min_date + 1),
              return_dates |-> [i \in 1 .. Len(SelectSeq(date_list, LAMBDA d : d >= min_date)) |->
                                   strftime(SelectSeq(date_list, LAMBDA d : d >= min_date)[i])]]
        ELSE [raised |-> "none", min_date |-> Sentinel, return_dates |-> <<>>]

\* mutant of ReturnDatesFromMeta: the day before the earliest missing date is
\* not fetched (date > min_date instead of date >= min_date)
ReturnDatesFromMeta_NoLookback(df, start_date, now) ==
    LET date_list == DateRange(start_date, now)
        col == ColIndex(df.cols, META_SOURCE_DATE_COLUMN)
        processed_dates == {to_datetime(df.rows[i][col]) : i \in DOMAIN df.rows}
        dates_missing == {date_list[i] : i \in 2 .. Len(date_list)} \ processed_dates
        min_date == SetMin(dates_missing) - 1
    IN  IF dates_missing # {}
        THEN [raised |-> "none",
              min_date |-> strftime(min_date + 1),
              return_dates |-> [i \in 1 .. Len(SelectSeq(date_list, LAMBDA d : d > min_date)) |->
                                   strftime(SelectSeq(date_list, LAMBDA d : d > min_date)[i])]]
        ELSE [raised |-> "none", min_date |-> Sentinel, return_dates |-> <<>>]

\* the try branch of return_date_list for a meta file that was read
ReturnDatesFromMeta(df, start_date, now) ==
    LET date_list == DateRange(start_date, now)
        col == ColIndex(df.cols, META_SOURCE_DATE_COLUMN)
        processed_dates == {to_datetime(df.rows[i][col]) : i \in DOMAIN df.rows}
        dates_missing == {date_list[i] : i \in 2 .. Len(date_list)} \ processed_dates
        min_date == SetMin(dates_missing) - 1
    IN  IF dates_missing # {}
        THEN [raised |-> "none",
              min_date |-> strftime(min_date + 1),
              return_dates |-> [i \in 1 .. Len(SelectSeq(date_list, LAMBDA d : d >= min_date)) |->
                                   strftime(SelectSeq(date_list, LAMBDA d : d >= min_date)[i])]]
        ELSE [raised |-> "none", min_date |-> Sentinel, return_dates |-> <<>>]

\* MetaProcess.return_date_list(meta_bucket, first_date, meta_file_key), with
\* obj the object under meta_file_key, now the date of datetime.today() and io
\* the outcome of the storage read
return_date_list(obj, first_date, now, io) ==
    LET start_date == strptime(first_date) - 1
        df == read_csv_to_df_ok(obj, io)
    IN  IF df.raised = "NoSuchKey" THEN ReturnDatesNoMeta(first_date, start_date, now)
        ELSE IF df.raised = OtherClientError THEN RdlRaised("UnboundLocalError")
        ELSE IF df.raised # "none" THEN RdlRaised(df.raised)
        ELSE IF df.none THEN RdlRaised("TypeError")
        ELSE IF ColIndex(df.cols, META_SOURCE_DATE_COLUMN) = 0 THEN RdlRaised("KeyError")
        ELSE ReturnDatesFromMeta(df, start_date, now)

\* df_new of update_meta_file: one row per date, all with the same stamp
NewMetaRows(extract_date_list, now) ==
    [i \in DOMAIN extract_date_list |-> <<extract_date_list[i], ProcessStamp(now)>>]

\* the result of update_meta_file when it leaves the object alone
UmfUntouched(obj, e, ret, read) ==
    [raised |-> e, ret |-> ret, obj |-> obj, read |-> read, wrote |-> FALSE]

\* mutant of update_meta_file: the check for an empty date list is missing
update_meta_file_NoEmptyCheck(obj, extract_date_list, now, io) ==
    LET df_new == NewMetaRows(extract_date_list, now)
        df_old == read_csv_to_df_ok(obj, io)
        df_all == IF df_old.raised = "NoSuchKey" THEN df_new ELSE df_old.rows \o df_new
        w == write_df_to_s3(obj, MetaColumns, df_all, META_FILE_FORMAT)
    IN  IF df_old.raised = OtherClientError THEN UmfUntouched(obj, "UnboundLocalError", "None", TRUE)
        ELSE IF df_old.raised \notin {"none", "NoSuchKey"} THEN UmfUntouched(obj, df_old.raised, "None", TRUE)
        ELSE IF df_old.raised = "none" /\ df_old.none THEN UmfUntouched(obj, "AttributeError", "None", TRUE)
        ELSE IF df_old.raised = "none" /\ df_old.cols # MetaColumns
        THEN UmfUntouched(obj, "WrongMetaFileException", "None", TRUE)
        ELSE [raised |-> w.raised, ret |-> "True", obj |-> w.obj, read |-> TRUE, wrote |-> w.wrote]

\* mutant of update_meta_file: the old records are not kept, df_new alone is
\* written
update_meta_file_Overwrite(obj, extract_date_list, now, io) ==
    LET df_new == NewMetaRows(extract_date_list, now)
        df_old == read_csv_to_df_ok(obj, io)
        w == write_df_to_s3(obj, MetaColumns, df_new, META_FILE_FORMAT)
    IN  IF extract_date_list = <<>> THEN UmfUntouched(obj, "none", "None", FALSE)
        ELSE IF df_old.raised = OtherClientError THEN UmfUntouched(obj, "UnboundLocalError", "None", TRUE)
        ELSE IF df_old.raised \notin {"none", "NoSuchKey"} THEN UmfUntouched(obj, df_old.raised, "None", TRUE)
        ELSE IF df_old.raised = "none" /\ df_old.none THEN UmfUntouched(obj, "AttributeError", "None", TRUE)
        ELSE IF df_old.raised = "none" /\ df_old.cols # MetaColumns
        THEN UmfUntouched(obj, "WrongMetaFileException", "None", TRUE)
        ELSE [raised |-> w.raised, ret |-> "True", obj |-> w.obj, read |-> TRUE, wrote |-> w.wrote]

\* mutant of update_meta_file: the columns of the old meta file are not
\* compared with those of df_new
update_meta_file_NoColumnCheck(obj, extract_date_list, now, io) ==
    LET df_new == NewMetaRows(extract_date_list, now)
        df_old == read_csv_to_df_ok(obj, io)
        df_all == IF df_old.raised = "NoSuchKey" THEN df_new ELSE df_old.rows \o df_new
        w == write_df_to_s3(obj, MetaColumns, df_all, META_FILE_FORMAT)
    IN  IF extract_date_list = <<>> THEN UmfUntouched(obj, "none", "None", FALSE)
        ELSE IF df_old.raised = OtherClientError THEN UmfUntouched(obj, "UnboundLocalError", "None", TRUE)
        ELSE IF df_old.raised \notin {"none", "NoSuchKey"} THEN UmfUntouched(obj, df_old.raised, "None", TRUE)
        ELSE IF df_old.raised = "none" /\ df_old.none THEN UmfUntouched(obj, "AttributeError", "None", TRUE)
        ELSE [raised |-> w.raised, ret |-> "True", obj |-> w.obj, read |-> TRUE, wrote |-> w.wrote]

\* mutant of update_meta_file: df_new is written before the old meta file is
\* read, so a failed read leaves the new rows behind
update_meta_file_WriteFirst(obj, extract_date_list, now, io) ==
    LET df_new == NewMetaRows(extract_date_list, now)
        df_old == read_csv_to_df_ok(obj, io)
        df_all == IF df_old.raised = "NoSuchKey" THEN df_new ELSE df_old.rows \o df_new
        w0 == write_df_to_s3(obj, MetaColumns, df_new, META_FILE_FORMAT)
        w == write_df_to_s3(obj, MetaColumns, df_all, META_FILE_FORMAT)
    IN  IF extract_date_list = <<>> THEN UmfUntouched(obj, "none", "None", FALSE)
        ELSE IF df_old.raised = OtherClientError
        THEN [raised |-> "UnboundLocalError", ret |-> "None", obj |-> w0.obj, read |-> TRUE,
              wrote |-> TRUE]
        ELSE IF df_old.raised \notin {"none", "NoSuchKey"} THEN UmfUntouched(obj, df_old.raised, "None", TRUE)
        ELSE IF df_old.raised = "none" /\ df_old.none THEN UmfUntouched(obj, "AttributeError", "None", TRUE)
        ELSE IF df_old.raised = "none" /\ df_old.cols # MetaColumns
        THEN UmfUntouched(obj, "WrongMetaFileException", "None", TRUE)
        ELSE [raised |-> w.raised, ret |-> "True", obj |-> w.obj, read |-> TRUE, wrote |-> w.wrote]

\* MetaProcess.update_meta_file(meta_bucket, meta_file_key, extract_date_list),
\* with obj the object under meta_file_key
update_meta_file(obj, extract_date_list, now, io) ==
    LET df_new == NewMetaRows(extract_date_list, now)
        df_old == read_csv_to_df_ok(obj, io)
        df_all == IF df_old.raised = "NoSuchKey" THEN df_new ELSE df_old.rows \o df_new
        w == write_df_to_s3(obj, MetaColumns, df_all, META_FILE_FORMAT)
    IN  IF extract_date_list = <<>> THEN UmfUntouched(obj, "none", "None", FALSE)
        ELSE IF df_old.raised = OtherClientError THEN UmfUntouched(obj, "UnboundLocalError", "None", TRUE)
        ELSE IF df_old.raised \notin {"none", "NoSuchKey"} THEN UmfUntouched(obj, df_old.raised, "None", TRUE)
        ELSE IF df_old.raised = "none" /\ df_old.none THEN UmfUntouched(obj, "AttributeError", "None", TRUE)
        ELSE IF df_old.raised = "none" /\ df_old.cols # MetaColumns
        THEN UmfUntouched(obj, "WrongMetaFileException", "None", TRUE)
        ELSE [raised |-> w.raised, ret |-> "True", obj |-> w.obj, read |-> TRUE, wrote |-> w.wrote]

\* XetraETL.__init__: the dates of the date list the run appends to the ledger
meta_update_list(extract_date, extract_date_list) ==
    SelectSeq(extract_date_list, LAMBDA date : StrGE(date, extract_date))

----------------------------------------------------------------------------
(* XetraETL.transform_report1 *)

\* a source row: the configured source columns, and whether one of them is
\* missing (NaN) in the row
SrcRow(isin, date, time, start, end, lo, hi, vol, nan) ==
    [ISIN |-> isin, Date |-> date, Time |-> time, StartPrice |-> start, EndPrice |-> end,
     MinPrice |-> lo, MaxPrice |-> hi, TradedVolume |-> vol, nan |-> nan]

\* mutant of dropna: the rows with a missing value stay
dropna_Off(dataframe) == dataframe

\* dataframe.dropna(inplace=True): the rows without a missing value
dropna(dataframe) == SelectSeq(dataframe, LAMBDA r : ~r.nan)

\* the rows of one (ISIN, Date) group, in the order of the table
Group(dataframe, isin, date) ==
    SelectSeq(dataframe, LAMBDA r : r.ISIN = isin /\ r.Date = date)

\* sort_values(Time).groupby([ISIN, Date])[StartPrice].transform("first"):
\* the start price of the first row of the group that has the earliest time
OpeningPrice(g) ==
    LET i == CHOOSE i \in DOMAIN g :
                 /\ \A j \in DOMAIN g : g[i].Time <= g[j].Time
                 /\ \A j \in 1 .. (i - 1) : g[j].Time # g[i].Time
    IN  g[i].StartPrice

\* mutant of ClosingPrice: the end price of the latest row
ClosingPrice_EndPrice(g) ==
    LET i == CHOOSE i \in DOMAIN g : \A j \in DOMAIN g : g[i].Time >= g[j].Time
    IN  g[i].EndPrice

\* ... transform("last"): the start price of the last row of the group that
\* has the latest time
ClosingPrice(g) ==
    LET i == CHOOSE i \in DOMAIN g :
                 /\ \A j \in DOMAIN g : g[i].Time >= g[j].Time
                 /\ \A j \in (i + 1) .. Len(g) : g[j].Time # g[i].Time
    IN  g[i].StartPrice

RECURSIVE SumVolume(_)
SumVolume(g) == IF g = <<>> THEN 0 ELSE g[1].TradedVolume + SumVolume(Tail(g))

\* the order of the groups in the aggregated table: by ISIN, then by Date
KeyLess(k1, k2) == k1[1] < k2[1] \/ (k1[1] = k2[1] /\ StrLess(k1[2], k2[2]))

RECURSIVE SortKeys(_)
SortKeys(S) ==
    IF S = {} THEN <<>>
    ELSE LET m == CHOOSE k \in S : \A j \in S \ {k} : KeyLess(k, j)
         IN  <<m>> \o SortKeys(S \ {m})

\* a / b rounded to the nearest integer, halves to the even one (b > 0)
RoundDiv(a, b) ==
    LET q == a \div b
        r == a % b
    IN  IF 2 * r > b \/ (2 * r = b /\ q % 2 = 1) THEN q + 1 ELSE q

\* groupby([ISIN, Date]).agg(...) of the complete rows: one row per group
Aggregate(dataframe) ==
    LET keys == SortKeys({<<dataframe[i].ISIN, dataframe[i].Date>> : i \in DOMAIN dataframe})
    IN  [n \in DOMAIN keys |->
            LET g == Group(dataframe, keys[n][1], keys[n][2])
            IN  [isin |-> keys[n][1],
                 date |-> keys[n][2],
                 opening_price |-> OpeningPrice(g),
                 closing_price |-> ClosingPrice(g),
                 minimum_price |-> SetMin({g[i].MinPrice : i \in DOMAIN g}),
                 maximum_price |-> SetMax({g[i].MaxPrice : i \in DOMAIN g}),
                 daily_traded_volume |-> SumVolume(g)]]

\* mutant of ChangePrevClosing: the shift is not grouped by instrument
ChangePrevClosing_AnyIsin(agg, n) ==
    LET earlier == {m \in DOMAIN agg : StrLess(agg[m].date, agg[n].date)}
        p == CHOOSE m \in earlier : \A k \in earlier : ~StrLess(agg[m].date, agg[k].date)
    IN  IF earlier = {} THEN NaN
        ELSE IntCell(RoundDiv((agg[n].closing_price - agg[p].closing_price) * 10000,
                              agg[p].closing_price))

\* sort_values(Date).groupby(ISIN)[closing price].shift(1) and the change in
\* percent, rounded to 2 decimals: a cell in hundredths of a percent, or NaN for
\* the first date of an instrument
ChangePrevClosing(agg, n) ==
    LET earlier == {m \in DOMAIN agg : agg[m].isin = agg[n].isin
                                       /\ StrLess(agg[m].date, agg[n].date)}
        p == CHOOSE m \in earlier : \A k \in earlier : ~StrLess(agg[m].date, agg[k].date)
    IN  IF earlier = {} THEN NaN
        ELSE IntCell(RoundDiv((agg[n].closing_price - agg[p].closing_price) * 10000,
                              agg[p].closing_price))

\* the aggregated table with the change column
WithChange(agg) ==
    [n \in DOMAIN agg |->
        [isin |-> agg[n].isin, date |-> agg[n].date,
         opening_price |-> agg[n].opening_price,
         closing_price |-> agg[n].closing_price,
         minimum_price |-> agg[n].minimum_price,
         maximum_price |-> agg[n].maximum_price,
         daily_traded_volume |-> agg[n].daily_traded_volume,
         change_prev_closing |-> ChangePrevClosing(agg, n)]]

\* mutant of FilterFromExtractDate: the rows before the extract date stay
FilterFromExtractDate_Off(report, extract_date) == report

\* dataframe[dataframe.Date >= self.extract_date]: a comparison of strings
FilterFromExtractDate(report, extract_date) ==
    SelectSeq(report, LAMBDA r : StrGE(r.date, extract_date))

\* mutant of transform_report1: the check for an empty table is missing
transform_report1_NoEmptyCheck(dataframe, extract_date) ==
    [rows |-> FilterFromExtractDate(WithChange(Aggregate(dropna(dataframe))),
                                    extract_date),
     aggregated |-> TRUE]

\* XetraETL.transform_report1(dataframe): the rows returned, and whether the
\* aggregation ran
transform_report1(dataframe, extract_date) ==
    IF dataframe = <<>>
    THEN [rows |-> dataframe, aggregated |-> FALSE]
    ELSE [rows |-> FilterFromExtractDate(WithChange(Aggregate(dropna(dataframe))),
                                         extract_date),
          aggregated |-> TRUE]

----------------------------------------------------------------------------
(* Initial values *)

\* the ledgers found before the first run: none, or one written earlier with
\* up to MaxInitRows dates
InitLedgers ==
    {AbsentObj} \cup
    {StoredObj(META_FILE_FORMAT, MetaColumns,
               [i \in DOMAIN ds |-> <<strftime(ds[i]), ProcessStamp(CalStart)>>]) :
        ds \in UNION {[1 .. n -> Days] : n \in 1 .. MaxInitRows}}

\* meta files that update_meta_file did not write: the two columns in the
\* other order, and a source date column of another name
WrongLedgers ==
    {StoredObj(META_FILE_FORMAT, <<META_PROCESS_COL, META_SOURCE_DATE_COLUMN>>,
               <<<<ProcessStamp(CalStart), strftime(CalStart)>>>>),
     StoredObj(META_FILE_FORMAT, <<"wrong_column", META_PROCESS_COL>>,
               <<<<strftime(CalStart), ProcessStamp(CalStart)>>>>)}

\* what a run remembers of the run before it: whether that run had computed
\* its window on the same day and then aborted, and whether it had computed the
\* same window
NoPrev == [aborted |-> FALSE, same_window |-> FALSE]

\* no XetraETL instance
NoEtl ==
    [pc |-> "idle", raised |-> "none", extract_date |-> <<>>, extract_date_list |-> <<>>,
     meta_update_list |-> <<>>, data_frame |-> <<>>, report |-> <<>>, stored |-> FALSE,
     appended |-> <<>>, after_ok |-> FALSE, day |-> 0 - 1,
     files_read |-> <<>>,
     meta_before |-> [b \in Buckets |-> AbsentObj], trg_before |-> {}, prev |-> NoPrev]

\* no call of transform_report1
NoXf == [pc |-> "none", extract_date |-> <<>>, dataframe |-> <<>>, rows |-> <<>>,
         aggregated |-> FALSE]

\* the keys of the bucket the connector is called on directly
S3Keys == {"testfile"}

\* no call of the connector
NoS3Call ==
    [op |-> "none", key |-> "testfile", cols |-> <<>>, rows |-> <<>>, file_format |-> "csv",
     raised |-> "none", ret |-> "None", none |-> FALSE, before |-> AbsentObj]

\* the processes that call update_meta_file on the same meta file
Updaters == {1, 2}

\* no call of update_meta_file under way: for each process its position, the
\* dates it is called with, the day its df_new is stamped with and the old meta
\* file it has read, and the processes that have written, in the order of
\* their writes
NoRace ==
    [pc |-> [p \in Updaters |-> "idle"], dates |-> [p \in Updaters |-> <<>>],
     now |-> [p \in Updaters |-> 0],
     df_old |-> [p \in Updaters |-> AbsentObj], wrote |-> <<>>]

\* an empty bucket, the connector not called
NoS3 == [objects |-> [k \in S3Keys |-> AbsentObj], write |-> NoS3Call, read |-> NoS3Call]

----------------------------------------------------------------------------
(* SpecMeta: MetaProcess called directly on the meta file of one bucket *)

MetaBucket == "trg"

\* what trail remembers of a call
Call(op, io, before, dates, raised, ret, min_date, return_dates, read, wrote) ==
    [op |-> op, io |-> io, before |-> before, dates |-> dates, raised |-> raised,
     ret |-> ret, min_date |-> min_date, return_dates |-> return_dates,
     read |-> read, wrote |-> wrote]

\* trail with call c added, the oldest call dropped beyond TrailLen
Remember(c) ==
    IF Len(trail) < TrailLen THEN Append(trail, c) ELSE Append(Tail(trail), c)

MetaUnchanged ==
    UNCHANGED <<src_first_extract_date, trg_format, trg_bucket, today, src_objects,
                trg_objects, etl, runs, appends, xf, s3, second, race>>

InitMeta ==
    /\ src_first_extract_date \in FirstDates
    /\ today \in Days
    /\ meta_file \in [Buckets -> InitLedgers \cup WrongLedgers]
    /\ meta_file["src"] = AbsentObj
    /\ trg_format = "parquet"
    /\ trg_bucket = "trg"
    /\ src_objects = <<>>
    /\ trg_objects = {}
    /\ etl = NoEtl
    /\ runs = 0
    /\ appends = {}
    /\ trail = <<>>
    /\ xf = NoXf
    /\ s3 = NoS3
    /\ second = 0
    /\ race = NoRace

\* a call of MetaProcess.return_date_list
MetaReturnDateList(io) ==
    LET r == return_date_list(meta_file[MetaBucket], src_first_extract_date, today, io)
    IN  /\ trail' = Remember(Call("return_date_list", io, meta_file[MetaBucket], <<>>,
                                  r.raised, "None", r.min_date, r.return_dates,
                                  TRUE, FALSE))
        /\ UNCHANGED meta_file
        /\ MetaUnchanged

\* call c is a return_date_list whose storage read worked
IsWindowCall(c) == c.op = "return_date_list" /\ c.io = OkIO

\* the date lists update_meta_file is called with: none; the dates the
\* constructor keeps of the window the last call returned; today's date when
\* the last call read the meta file and found no window in it
UpdateArgs ==
    {<<>>} \cup
    (IF trail # <<>> /\ IsWindowCall(trail[Len(trail)])
     THEN IF trail[Len(trail)].raised = "none"
          THEN {meta_update_list(trail[Len(trail)].min_date, trail[Len(trail)].return_dates)}
          ELSE {<<strftime(today)>>}
     ELSE {})

\* a call of MetaProcess.update_meta_file
MetaUpdateMetaFile(dates, io) ==
    LET r == update_meta_file(meta_file[MetaBucket], dates, today, io)
    IN  /\ Len(meta_file[MetaBucket].rows) + Len(dates) <= MaxLedgerRows
        /\ trail' = Remember(Call("update_meta_file", io, meta_file[MetaBucket], dates,
                                  r.raised, r.ret, <<>>, <<>>, r.read, r.wrote))
        /\ meta_file' = [meta_file EXCEPT ![MetaBucket] = r.obj]
        /\ MetaUnchanged

NextMeta ==
    \/ \E io \in IO : MetaReturnDateList(io)
    \/ \E io \in IO : \E dates \in UpdateArgs : MetaUpdateMetaFile(dates, io)

SpecMeta == InitMeta /\ [][NextMeta]_vars

----------------------------------------------------------------------------
(* Claims on MetaProcess, checked under SpecMeta *)

\* the ledger as call i of trail left it
After(i) == IF i < Len(trail) THEN trail[i + 1].before ELSE meta_file[MetaBucket]

\* the first date as a date
FirstDay == strptime(src_first_extract_date)

\* the source dates of a ledger that exists, as dates
SourceDays(obj) ==
    {strptime(obj.rows[i][ColIndex(obj.cols, META_SOURCE_DATE_COLUMN)]) : i \in DOMAIN obj.rows}

\* the ledger exists and has a source date column
HasSourceDates(obj) == obj.exists /\ ColIndex(obj.cols, META_SOURCE_DATE_COLUMN) # 0

\* the dates from firstDate to today that the ledger does not hold
MissingDays(obj) == (FirstDay .. today) \ SourceDays(obj)

\* the formatted dates from day a to day b, ascending
Formatted(a, b) == [i \in 1 .. Max(0, b - a + 1) |-> strftime(a + i - 1)]

\* C1: with no ledger object (NoSuchKey), return_date_list returns the first
\* date as the cutoff and exactly the formatted dates from the day before the
\* first date to today, ascending and without gaps
C1_AbsentLedgerFullWindow ==
    \A i \in DOMAIN trail :
        (IsWindowCall(trail[i]) /\ ~trail[i].before.exists) =>
            /\ trail[i].raised = "none"
            /\ trail[i].min_date = src_first_extract_date
            /\ strptime(trail[i].min_date) = FirstDay
            /\ trail[i].return_dates = Formatted(FirstDay - 1, today)

\* C1 witness: a call without a ledger that returned lookback day, first date
\* and at least one later day
C1_Witness ==
    \E i \in DOMAIN trail :
        /\ IsWindowCall(trail[i]) /\ ~trail[i].before.exists
        /\ Len(trail[i].return_dates) >= 3
        /\ trail[i].return_dates[1] = strftime(FirstDay - 1)

\* C2: when the ledger exists and holds every date from the first date to
\* today, return_date_list returns no dates and the sentinel cutoff, which is
\* later than every real date, whatever else the ledger holds
C2_CompleteLedgerEmptyWindow ==
    \A i \in DOMAIN trail :
        (IsWindowCall(trail[i]) /\ HasSourceDates(trail[i].before)
            /\ MissingDays(trail[i].before) = {}) =>
            /\ trail[i].raised = "none"
            /\ trail[i].return_dates = <<>>
            /\ trail[i].min_date = Sentinel
            /\ \A n \in (CalStart - 1) .. (CalStart + CalDays) :
                   StrLess(strftime(n), trail[i].min_date)

\* C2 witness: such a call on a ledger that covers at least two days and holds
\* a duplicate or a date outside the range
C2_Witness ==
    \E i \in DOMAIN trail :
        /\ IsWindowCall(trail[i]) /\ HasSourceDates(trail[i].before)
        /\ MissingDays(trail[i].before) = {}
        /\ today > FirstDay
        /\ \/ Cardinality(SourceDays(trail[i].before)) < Len(trail[i].before.rows)
           \/ SourceDays(trail[i].before) \ (FirstDay .. today) # {}
        /\ trail[i].min_date = Sentinel

\* C3: when the ledger exists and lacks a date of [firstDate, today], the
\* cutoff is the earliest such date and the date list is exactly the dates
\* from the day before it to today, ascending and without gaps
C3_MissingDatesWindow ==
    \A i \in DOMAIN trail :
        (IsWindowCall(trail[i]) /\ HasSourceDates(trail[i].before)
            /\ MissingDays(trail[i].before) # {}) =>
            /\ trail[i].raised = "none"
            /\ trail[i].min_date = strftime(SetMin(MissingDays(trail[i].before)))
            /\ trail[i].return_dates =
                   Formatted(SetMin(MissingDays(trail[i].before)) - 1, today)

\* C3 witness: a call on a ledger whose earliest missing date is after the
\* first date
C3_Witness ==
    \E i \in DOMAIN trail :
        /\ IsWindowCall(trail[i]) /\ HasSourceDates(trail[i].before)
        /\ MissingDays(trail[i].before) # {}
        /\ SetMin(MissingDays(trail[i].before)) > FirstDay
        /\ Len(trail[i].return_dates) >= 2

\* call i returned a window, call i+1 updated the ledger with the dates of
\* that window that are >= its cutoff, call i+2 computed the window again
IsRoundTrip(i) ==
    /\ i + 2 <= Len(trail)
    /\ IsWindowCall(trail[i]) /\ trail[i].raised = "none"
    /\ trail[i + 1].op = "update_meta_file" /\ trail[i + 1].io = OkIO
    /\ trail[i + 1].raised = "none"
    /\ trail[i + 1].dates = meta_update_list(trail[i].min_date, trail[i].return_dates)
    /\ IsWindowCall(trail[i + 2])

\* C4: after return_date_list and update_meta_file with the dates of the
\* window that are >= the cutoff, a second return_date_list (same first date,
\* same today) returns an empty date list
C4_WindowEmptyAfterUpdate ==
    \A i \in DOMAIN trail :
        IsRoundTrip(i) => /\ trail[i + 2].raised = "none"
                          /\ trail[i + 2].return_dates = <<>>

\* C10: update_meta_file with an empty date list returns None, raises
\* nothing, neither reads nor writes, and leaves the ledger (present or
\* absent) as it was
C10_EmptyUpdateIsNoOp ==
    \A i \in DOMAIN trail :
        (trail[i].op = "update_meta_file" /\ trail[i].dates = <<>>) =>
            /\ trail[i].ret = "None"
            /\ trail[i].raised = "none"
            /\ ~trail[i].read
            /\ ~trail[i].wrote
            /\ After(i) = trail[i].before

\* C10 witness: an empty update of a ledger that exists, while the storage
\* read would have failed
C10_Witness ==
    \E i \in DOMAIN trail :
        /\ trail[i].op = "update_meta_file" /\ trail[i].dates = <<>>
        /\ trail[i].before.exists
        /\ trail[i].io = OtherClientError
        /\ trail[i].ret = "None"

\* call c is an update_meta_file with dates to add whose storage read worked
IsUpdateCall(c) == c.op = "update_meta_file" /\ c.dates # <<>> /\ c.io = OkIO

Entries(obj) == IF obj.exists THEN obj.rows ELSE <<>>

\* C12: after a successful update_meta_file with a non-empty date list the
\* ledger is the previous entries in their order followed by one entry per
\* new date in the given order, nothing merged, deduplicated or dropped, and
\* all new entries carry the same processing timestamp
C12_AppendOnlyUpdate ==
    \A i \in DOMAIN trail :
        (IsUpdateCall(trail[i]) /\ trail[i].raised = "none") =>
            LET old == Entries(trail[i].before)
                new == After(i)
            IN  /\ new.exists /\ new.cols = MetaColumns
                /\ Len(new.rows) = Len(old) + Len(trail[i].dates)
                /\ SubSeq(new.rows, 1, Len(old)) = old
                /\ \A j \in DOMAIN trail[i].dates :
                       /\ new.rows[Len(old) + j][1] = trail[i].dates[j]
                       /\ new.rows[Len(old) + j][2] = new.rows[Len(old) + 1][2]

\* C12 witness: a successful update of an existing ledger with several dates,
\* one of which the ledger already held
C12_Witness ==
    \E i \in DOMAIN trail :
        /\ IsUpdateCall(trail[i]) /\ trail[i].raised = "none"
        /\ trail[i].before.exists
        /\ Len(trail[i].dates) >= 2
        /\ \E j \in DOMAIN trail[i].dates :
               \E r \in DOMAIN trail[i].before.rows :
                   trail[i].before.rows[r][1] = trail[i].dates[j]
        /\ Len(After(i).rows) = Len(trail[i].before.rows) + Len(trail[i].dates)

\* call c is a return_date_list that returned a window
IsWindow(c) == IsWindowCall(c) /\ c.raised = "none"

\* C26: the first date of a non-empty date list is the day before the cutoff
\* and every later date is on or after the cutoff, so the dates the constructor
\* keeps for the ledger update (and the filter keeps in the report) are all
\* dates of the list but the first
C26_OnlyLookbackDayExcluded ==
    \A i \in DOMAIN trail :
        (IsWindow(trail[i]) /\ trail[i].return_dates # <<>>) =>
            /\ strptime(trail[i].return_dates[1]) = strptime(trail[i].min_date) - 1
            /\ \A j \in 2 .. Len(trail[i].return_dates) :
                   strptime(trail[i].return_dates[j]) >= strptime(trail[i].min_date)
            /\ meta_update_list(trail[i].min_date, trail[i].return_dates)
                   = Tail(trail[i].return_dates)

\* C27: every date from the first date to today that the ledger does not hold
\* is in the returned date list and is kept by the constructor for the ledger
\* update, so the run extracts it and appends it
C27_NoUnprocessedDateSkipped ==
    \A i \in DOMAIN trail :
        (IsWindow(trail[i])) =>
            \A d \in (IF trail[i].before.exists THEN MissingDays(trail[i].before)
                       ELSE FirstDay .. today) :
                /\ \E j \in DOMAIN trail[i].return_dates :
                       trail[i].return_dates[j] = strftime(d)
                /\ \E j \in DOMAIN meta_update_list(trail[i].min_date,
                                                      trail[i].return_dates) :
                       meta_update_list(trail[i].min_date, trail[i].return_dates)[j]
                           = strftime(d)

\* call c read the ledger and the read failed with a storage error other than
\* NoSuchKey
IsFailedRead(c) ==
    /\ c.io = OtherClientError
    /\ c.op = "return_date_list" \/ (c.op = "update_meta_file" /\ c.dates # <<>>)

\* C28: when the ledger read fails with a storage error other than NoSuchKey,
\* return_date_list and update_meta_file raise that storage error to the
\* caller, write nothing and leave the ledger as it was
C28_StorageErrorPropagates ==
    \A i \in DOMAIN trail :
        IsFailedRead(trail[i]) =>
            /\ trail[i].raised = OtherClientError
            /\ ~trail[i].wrote
            /\ After(i) = trail[i].before

\* C30: the cutoff return_date_list returns is the sentinel or a date in the
\* zero-padded form strftime gives
C30_CutoffZeroPadded ==
    \A i \in DOMAIN trail :
        IsWindow(trail[i]) =>
            \/ trail[i].min_date = Sentinel
            \/ trail[i].min_date = strftime(strptime(trail[i].min_date))

----------------------------------------------------------------------------
(* SpecTransform: transform_report1 called directly on a table *)

\* the days source rows are dated: the lookback day and the calendar days
TableDays == (CalStart - 1) .. (CalStart + CalDays - 1)

\* instrument and time of the source rows: two trades of one instrument and
\* one of another
Trades == {<<1, 1>>, <<1, 2>>, <<2, 1>>}

\* the source rows of the tables: for every trade and day a complete row, and
\* a row with a missing value
TradeRow(k, d) ==
    SrcRow(k[1], strftime(d), k[2], 10 * k[1] + 2 * (d - CalStart) + k[2],
           10 * k[1] + 2 * (d - CalStart) + 3 - k[2],
           10 * k[1] + 2 * (d - CalStart) - k[2], 10 * k[1] + 2 * (d - CalStart) + 6 - k[2],
           k[2], FALSE)

\* a row with a missing value, of a group that also has complete rows
NaNRow == SrcRow(1, strftime(CalStart), 1, 10, 10, 1, 99, 1, TRUE)

SrcRows == {TradeRow(k, d) : k \in Trades, d \in TableDays} \cup {NaNRow}

\* the trades of one day as its files give them: by instrument, then by time
DayRows(d) == <<TradeRow(<<1, 1>>, d), TradeRow(<<1, 2>>, d), TradeRow(<<2, 1>>, d)>>

\* the table extract returns for a window of all days: the rows of the
\* days from a on, day after day, and a row with a missing value
RECURSIVE WindowRows(_)
WindowRows(a) ==
    IF a > CalStart + CalDays - 1 THEN <<NaNRow>> ELSE DayRows(a) \o WindowRows(a + 1)

\* a table in the opposite order
Reversed(t) == [i \in DOMAIN t |-> t[Len(t) + 1 - i]]

\* the table of all days, the same table in the opposite order, and the same
\* without the rows of instrument 1 on the first calendar day
WindowTables ==
    {WindowRows(CalStart - 1),
     Reversed(WindowRows(CalStart - 1)),
     SelectSeq(WindowRows(CalStart - 1),
               LAMBDA r : r.nan \/ r.ISIN # 1 \/ r.Date # strftime(CalStart))}

\* the tables: up to MaxRows source rows in any order, and the tables of a
\* whole window
Tables == UNION {[1 .. n -> SrcRows] : n \in 0 .. MaxRows} \cup WindowTables

\* the extract dates return_date_list computes
Cutoffs ==
    {return_date_list(l, f, t, OkIO).min_date :
        l \in InitLedgers, f \in FirstDates, t \in Days}

InitTransform ==
    /\ src_first_extract_date = strftime(CalStart)
    /\ today = CalStart
    /\ meta_file = [b \in Buckets |-> AbsentObj]
    /\ trg_format = "parquet"
    /\ trg_bucket = "trg"
    /\ src_objects = <<>>
    /\ trg_objects = {}
    /\ etl = NoEtl
    /\ runs = 0
    /\ appends = {}
    /\ trail = <<>>
    /\ \E c \in Cutoffs :
           xf = [pc |-> "constructed", extract_date |-> c, dataframe |-> <<>>,
                 rows |-> <<>>, aggregated |-> FALSE]
    /\ s3 = NoS3
    /\ second = 0
    /\ race = NoRace

\* a call of transform_report1 on table df
XfTransform(df) ==
    LET r == transform_report1(df, xf.extract_date)
    IN  /\ xf.pc = "constructed"
        /\ xf' = [pc |-> "transformed", extract_date |-> xf.extract_date,
                  dataframe |-> df, rows |-> r.rows, aggregated |-> r.aggregated]
        /\ UNCHANGED <<src_first_extract_date, trg_format, trg_bucket, today, meta_file,
                       src_objects, trg_objects, etl, runs, appends, trail, s3,
                       second, race>>

NextTransform == \E df \in Tables : XfTransform(df)

SpecTransform == InitTransform /\ [][NextTransform]_vars

\* C7: transform_report1 returns no row dated before the cutoff, for every
\* table and every cutoff return_date_list computes, and no row at all for
\* the sentinel cutoff
C7_NoRowBeforeCutoff ==
    xf.pc = "transformed" =>
        IF xf.extract_date = Sentinel
        THEN xf.rows = <<>>
        ELSE \A n \in DOMAIN xf.rows :
                 strptime(xf.rows[n].date) >= strptime(xf.extract_date)

\* C7 witness: a table with a complete row before the cutoff and one from the
\* cutoff on, of which only the later one is returned
C7_Witness ==
    /\ xf.pc = "transformed"
    /\ xf.extract_date # Sentinel
    /\ \E i \in DOMAIN xf.dataframe :
           /\ ~xf.dataframe[i].nan
           /\ strptime(xf.dataframe[i].Date) < strptime(xf.extract_date)
    /\ Len(xf.rows) = 1

\* C8: transform_report1 of an empty table returns the empty table, and the
\* aggregation is not run
C8_EmptyTableUntouched ==
    (xf.pc = "transformed" /\ xf.dataframe = <<>>) =>
        /\ xf.rows = <<>>
        /\ ~xf.aggregated

\* C8 witness: transform_report1 was called on an empty table
C8_Witness ==
    /\ xf.pc = "transformed"
    /\ xf.dataframe = <<>>
    /\ xf.extract_date # Sentinel
    /\ xf.rows = <<>>

\* the complete rows of the table given to transform_report1 that have the
\* instrument and the date of report row r
RowsOf(r) ==
    {i \in DOMAIN xf.dataframe :
        /\ ~xf.dataframe[i].nan
        /\ xf.dataframe[i].ISIN = r.isin
        /\ xf.dataframe[i].Date = r.date}

\* C17: the opening price of a report row is the start price of the row of its
\* instrument and date with the earliest time, and its closing price is the
\* start price of the row with the latest time, whatever the order of the rows
\* in the table
C17_OpeningClosingByTime ==
    xf.pc = "transformed" =>
        \A n \in DOMAIN xf.rows :
            \A i \in RowsOf(xf.rows[n]) :
                /\ (\A j \in RowsOf(xf.rows[n]) :
                        xf.dataframe[i].Time <= xf.dataframe[j].Time)
                   => xf.rows[n].opening_price = xf.dataframe[i].StartPrice
                /\ (\A j \in RowsOf(xf.rows[n]) :
                        xf.dataframe[i].Time >= xf.dataframe[j].Time)
                   => xf.rows[n].closing_price = xf.dataframe[i].StartPrice

\* C17 witness: a report row of a group whose later row comes first in the
\* table, with a closing price that differs from the opening price and from the
\* end price of the latest row
C17_Witness ==
    /\ xf.pc = "transformed"
    /\ \E n \in DOMAIN xf.rows :
           \E i, j \in RowsOf(xf.rows[n]) :
               /\ i < j
               /\ xf.dataframe[i].Time > xf.dataframe[j].Time
               /\ xf.rows[n].closing_price = xf.dataframe[i].StartPrice
               /\ xf.rows[n].closing_price # xf.dataframe[i].EndPrice
               /\ xf.rows[n].opening_price = xf.dataframe[j].StartPrice
               /\ xf.rows[n].opening_price # xf.rows[n].closing_price

\* the sum of the traded volumes of the rows of the table at the indices S
RECURSIVE VolumeOf(_)
VolumeOf(S) ==
    IF S = {} THEN 0
    ELSE LET i == CHOOSE i \in S : TRUE
         IN  xf.dataframe[i].TradedVolume + VolumeOf(S \ {i})

\* C18: the minimum price of a report row is the least MinPrice, its maximum
\* price the greatest MaxPrice and its daily traded volume the sum of the
\* TradedVolume of the complete rows of its instrument and date; rows with a
\* missing value count for none of them
C18_MinMaxVolumeOfCompleteRows ==
    xf.pc = "transformed" =>
        \A n \in DOMAIN xf.rows :
            /\ RowsOf(xf.rows[n]) # {}
            /\ xf.rows[n].minimum_price =
                   SetMin({xf.dataframe[i].MinPrice : i \in RowsOf(xf.rows[n])})
            /\ xf.rows[n].maximum_price =
                   SetMax({xf.dataframe[i].MaxPrice : i \in RowsOf(xf.rows[n])})
            /\ xf.rows[n].daily_traded_volume = VolumeOf(RowsOf(xf.rows[n]))

\* C18 witness: a report row of a group of two complete rows, one with the
\* least MinPrice and the other with the greatest MaxPrice, in a table that
\* also has a row of that group with a missing value
C18_Witness ==
    /\ xf.pc = "transformed"
    /\ \E n \in DOMAIN xf.rows :
           /\ \E i \in DOMAIN xf.dataframe :
                  /\ xf.dataframe[i].nan
                  /\ xf.dataframe[i].ISIN = xf.rows[n].isin
                  /\ xf.dataframe[i].Date = xf.rows[n].date
                  /\ xf.dataframe[i].MinPrice < xf.rows[n].minimum_price
                  /\ xf.dataframe[i].MaxPrice > xf.rows[n].maximum_price
           /\ \E i, j \in RowsOf(xf.rows[n]) :
                  /\ xf.dataframe[i].MinPrice < xf.dataframe[j].MinPrice
                  /\ xf.dataframe[i].MaxPrice < xf.dataframe[j].MaxPrice
                  /\ xf.rows[n].minimum_price = xf.dataframe[i].MinPrice
                  /\ xf.rows[n].maximum_price = xf.dataframe[j].MaxPrice
                  /\ xf.rows[n].daily_traded_volume =
                         xf.dataframe[i].TradedVolume + xf.dataframe[j].TradedVolume

\* the (ISIN, Date) pairs of the complete rows of the table given to
\* transform_report1 that are dated on or after the cutoff
PairsFromCutoff ==
    IF xf.extract_date = Sentinel THEN {}
    ELSE {<<xf.dataframe[i].ISIN, xf.dataframe[i].Date>> :
             i \in {j \in DOMAIN xf.dataframe :
                        /\ ~xf.dataframe[j].nan
                        /\ strptime(xf.dataframe[j].Date) >= strptime(xf.extract_date)}}

\* C19: the report has exactly one row for each (ISIN, Date) pair of the
\* complete input rows dated on or after the cutoff, and no other row
C19_OneRowPerPairFromCutoff ==
    xf.pc = "transformed" =>
        /\ {<<xf.rows[n].isin, xf.rows[n].date>> : n \in DOMAIN xf.rows} = PairsFromCutoff
        /\ \A m, n \in DOMAIN xf.rows :
               (xf.rows[m].isin = xf.rows[n].isin /\ xf.rows[m].date = xf.rows[n].date)
                   => m = n

\* the days before the date of report row r on which the table given to
\* transform_report1 has complete rows of r's instrument
EarlierDays(r) ==
    {strptime(xf.dataframe[i].Date) :
        i \in {j \in DOMAIN xf.dataframe :
                   /\ ~xf.dataframe[j].nan
                   /\ xf.dataframe[j].ISIN = r.isin
                   /\ strptime(xf.dataframe[j].Date) < strptime(r.date)}}

\* the start price of the latest complete row of instrument isin on day d
ClosingOn(isin, d) ==
    LET S == {i \in DOMAIN xf.dataframe :
                 /\ ~xf.dataframe[i].nan
                 /\ xf.dataframe[i].ISIN = isin
                 /\ strptime(xf.dataframe[i].Date) = d}
        i == CHOOSE i \in S : \A j \in S : xf.dataframe[i].Time >= xf.dataframe[j].Time
    IN  xf.dataframe[i].StartPrice

\* C20: the change of a report row is null when the table has no complete
\* row of its instrument on an earlier day; otherwise it is the change in
\* percent, to two decimals, of its closing price against the closing price of
\* the same instrument on the closest earlier day that has such rows, whether
\* or not that day is before the cutoff
C20_ChangeAgainstPreviousDay ==
    xf.pc = "transformed" =>
        \A n \in DOMAIN xf.rows :
            IF EarlierDays(xf.rows[n]) = {}
            THEN xf.rows[n].change_prev_closing = NaN
            ELSE xf.rows[n].change_prev_closing =
                     IntCell(RoundDiv(
                         (xf.rows[n].closing_price
                              - ClosingOn(xf.rows[n].isin, SetMax(EarlierDays(xf.rows[n]))))
                             * 10000,
                         ClosingOn(xf.rows[n].isin, SetMax(EarlierDays(xf.rows[n])))))

\* C20 witness: a report row with a change that is not zero, whose instrument
\* has rows on two earlier days, the closer one before the cutoff and shared
\* with another instrument
C20_Witness ==
    /\ xf.pc = "transformed"
    /\ xf.extract_date # Sentinel
    /\ \E n \in DOMAIN xf.rows :
           /\ Cardinality(EarlierDays(xf.rows[n])) >= 2
           /\ SetMax(EarlierDays(xf.rows[n])) < strptime(xf.extract_date)
           /\ \E i \in DOMAIN xf.dataframe :
                  /\ xf.dataframe[i].ISIN # xf.rows[n].isin
                  /\ strptime(xf.dataframe[i].Date) = SetMax(EarlierDays(xf.rows[n]))
           /\ ~IsNaN(xf.rows[n].change_prev_closing)
           /\ xf.rows[n].change_prev_closing # IntCell(0)

----------------------------------------------------------------------------
(* SpecS3: the S3BucketConnector called directly on a bucket *)

S3Columns == <<"col1", "col2">>

\* the rows of the tables written: a date and an integer, a string of digits
\* and an integer, a row without values
S3Rows ==
    {<<strftime(CalStart), IntCell(1)>>,
     <<<<0, 7>>, IntCell(2)>>,
     <<NaN, NaN>>}

\* the tables written: pd.DataFrame() and up to MaxRows rows under S3Columns
S3Tables ==
    {[cols |-> <<>>, rows |-> <<>>]} \cup
    {[cols |-> S3Columns, rows |-> r] : r \in UNION {[1 .. n -> S3Rows] : n \in 0 .. MaxRows}}

\* the formats asked for: the two of S3FileTypes and another one
S3Formats == {"csv", "parquet", "wrong_format"}

S3Unchanged ==
    UNCHANGED <<src_first_extract_date, trg_format, trg_bucket, today, meta_file,
                src_objects, trg_objects, etl, runs, appends, trail, xf, second, race>>

InitS3 ==
    /\ src_first_extract_date = strftime(CalStart)
    /\ today = CalStart
    /\ meta_file = [b \in Buckets |-> AbsentObj]
    /\ trg_format = "parquet"
    /\ trg_bucket = "trg"
    /\ src_objects = <<>>
    /\ trg_objects = {}
    /\ etl = NoEtl
    /\ runs = 0
    /\ appends = {}
    /\ trail = <<>>
    /\ xf = NoXf
    /\ s3 = NoS3
    /\ second = 0
    /\ race = NoRace

\* a call of write_df_to_s3(data_frame, key, file_format)
S3Write(df, key, file_format) ==
    LET w == write_df_to_s3(s3.objects[key], df.cols, df.rows, file_format)
    IN  /\ s3' = [objects |-> [s3.objects EXCEPT ![key] = w.obj],
                  write |-> [op |-> "write_df_to_s3", key |-> key, cols |-> df.cols,
                             rows |-> df.rows, file_format |-> file_format,
                             raised |-> w.raised, ret |-> w.ret, none |-> w.ret = "None",
                             before |-> s3.objects[key]],
                  read |-> NoS3Call]
        /\ S3Unchanged

\* a call of read_csv_to_df_ok(key), after a write
S3Read(key) ==
    LET r == read_csv_to_df_ok(s3.objects[key], OkIO)
    IN  /\ s3.write.op # "none"
        /\ s3.read.op = "none"
        /\ s3' = [s3 EXCEPT !.read =
                      [op |-> "read_csv_to_df_ok", key |-> key, cols |-> r.cols,
                       rows |-> r.rows, file_format |-> "csv", raised |-> r.raised,
                       ret |-> "None", none |-> r.none, before |-> s3.objects[key]]]
        /\ S3Unchanged

NextS3 ==
    \/ \E df \in S3Tables, key \in S3Keys, file_format \in S3Formats :
           S3Write(df, key, file_format)
    \/ \E key \in S3Keys : S3Read(key)

SpecS3 == InitS3 /\ [][NextS3]_vars

\* write_df_to_s3 was called
S3Wrote == s3.write.op = "write_df_to_s3"

\* C13: a write_df_to_s3 whose format is neither csv nor parquet raises
\* WrongFormatException, for every table, and stores no object: the object
\* under the key is as it was
C13_WrongFormatRaisesNoWrite ==
    (S3Wrote /\ s3.write.file_format \notin {"csv", "parquet"}) =>
        /\ s3.write.raised = "WrongFormatException"
        /\ s3.objects[s3.write.key] = s3.write.before

\* C14: write_df_to_s3 with an empty table returns None without raising and
\* leaves the bucket as it was: no object is created or overwritten at the key
C14_EmptyWriteIsNoOp ==
    (S3Wrote /\ s3.write.rows = <<>>) =>
        /\ s3.write.ret = "None"
        /\ s3.write.raised = "none"
        /\ s3.objects[s3.write.key] = s3.write.before

\* C14 witness: an empty table with columns was written in a supported format
\* to a key that held an object, and the object is still there
C14_Witness ==
    /\ S3Wrote /\ s3.write.rows = <<>> /\ s3.write.cols = S3Columns
    /\ s3.write.file_format = "csv"
    /\ s3.write.before.exists
    /\ s3.write.ret = "None"
    /\ s3.objects[s3.write.key] = s3.write.before

\* C15: after write_df_to_s3 of a non-empty table in a supported format,
\* read_csv_to_df_ok of the same key returns a table with the same columns and
\* the same row values
C15_WriteReadRoundTrip ==
    (/\ S3Wrote /\ s3.write.rows # <<>> /\ s3.write.file_format \in {"csv", "parquet"}
     /\ s3.read.op = "read_csv_to_df_ok" /\ s3.read.key = s3.write.key) =>
        /\ s3.read.raised = "none"
        /\ ~s3.read.none
        /\ s3.read.cols = s3.write.cols
        /\ s3.read.rows = s3.write.rows

----------------------------------------------------------------------------
(* Spec: runs of the pipeline (run.py: XetraETL(...), then etl_report1()) *)

SrcBucket == "src"

SrcColumns ==
    <<"ISIN", "Date", "Time", "StartPrice", "EndPrice", "MinPrice", "MaxPrice", "TradedVolume">>

\* the line of a source row in a trade file, the fields in the order of
\* SrcColumns; a missing value is an empty field
CsvLine(r) ==
    <<Digits(r.ISIN), r.Date, Digits(r.Time),
      Digits(r.StartPrice), IF r.nan THEN <<>> ELSE Digits(r.EndPrice),
      Digits(r.MinPrice), Digits(r.MaxPrice), Digits(r.TradedVolume)>>

\* the number in a cell of a numeric column (none in a missing value)
CellInt(c) == IF IsNaN(c) THEN 0 ELSE IntOf(c)

\* the row of the DataFrame read from a trade file, by column name
AsSrcRow(cells) ==
    SrcRow(CellInt(cells[1]), cells[2], CellInt(cells[3]), CellInt(cells[4]),
           CellInt(cells[5]), CellInt(cells[6]), CellInt(cells[7]), CellInt(cells[8]),
           \E j \in DOMAIN cells : IsNaN(cells[j]))

\* the trade file of day d: two complete rows of one instrument
SrcFile(d) ==
    [key |-> strftime(d) \o <<Dash, 1>>, exists |-> TRUE, enc |-> "csv", cols |-> SrcColumns,
     rows |-> <<CsvLine(SrcRow(1, strftime(d), 1, 10 + d - CalStart, 14, 9, 12, 5, FALSE)),
                CsvLine(SrcRow(1, strftime(d), 2, 11 + d - CalStart, 15, 10, 13, 7, FALSE))>>]

\* a trade file of day d of an hour without trades: the header and no rows
HeaderOnlyFile(d) ==
    [key |-> strftime(d) \o <<Dash, 0>>, exists |-> TRUE, enc |-> "csv", cols |-> SrcColumns,
     rows |-> <<>>]

\* the files of days a..b, in key order
SrcFiles(a, b) == [i \in 1 .. Max(0, b - a + 1) |-> SrcFile(a + i - 1)]

\* what the source bucket holds: nothing; a file without rows for the first
\* calendar day; or a file without rows for the first calendar day and a file
\* with rows for every day
SrcContents ==
    {<<>>,
     <<HeaderOnlyFile(CalStart)>>,
     SrcFiles(CalStart - 1, CalStart - 1) \o <<HeaderOnlyFile(CalStart)>>
         \o SrcFiles(CalStart, CalStart + CalDays - 1)}

\* the ledgers found by the first run: none, or one with one date
RunLedgers ==
    {AbsentObj} \cup
    {StoredObj(META_FILE_FORMAT, MetaColumns, <<<<strftime(d), ProcessStamp(CalStart)>>>>) :
        d \in Days}

\* the configured report formats: a supported one and an unsupported one
TrgFormats == {"parquet", "xlsx"}

\* S3BucketConnector.list_files_in_prefix on the source bucket
list_files_in_prefix(objects, prefix) ==
    SelectSeq(objects, LAMBDA o : StartsWith(o.key, prefix))

\* pd.concat(..., ignore_index=True) of the tables read from the files: a file
\* read as None adds nothing
RECURSIVE ConcatRows(_)
ConcatRows(files) ==
    IF files = <<>> THEN <<>>
    ELSE LET df == read_csv_to_df_ok(files[1], OkIO).rows
         IN  [i \in DOMAIN df |-> AsSrcRow(df[i])] \o ConcatRows(Tail(files))

\* mutant of FilesOf: every object of the bucket, whatever the dates
FilesOf_All(objects, extract_date_list) == objects

\* the files list of extract: for every date of the list, the keys under it
RECURSIVE FilesOf(_, _)
FilesOf(objects, extract_date_list) ==
    IF extract_date_list = <<>> THEN <<>>
    ELSE list_files_in_prefix(objects, extract_date_list[1])
             \o FilesOf(objects, Tail(extract_date_list))

\* XetraETL.extract: the empty table when there are no files; pd.concat raises
\* ValueError when every file was read as None
extract(objects, extract_date_list) ==
    LET files == FilesOf(objects, extract_date_list)
    IN  IF files = <<>> THEN [raised |-> "none", data_frame |-> <<>>]
        ELSE IF \A i \in DOMAIN files : read_csv_to_df_ok(files[i], OkIO).none
        THEN [raised |-> "ValueError", data_frame |-> <<>>]
        ELSE [raised |-> "none", data_frame |-> ConcatRows(files)]

\* the columns of the report (XetraTargetConfig.trg_col_*)
ReportColumns ==
    <<"isin", "date", "opening_price", "closing_price", "minimum_price", "maximum_price",
      "daily_traded_volume", "change_prev_closing">>

\* the cells of the report DataFrame, the columns in the order of ReportColumns
ReportCells(report) ==
    [n \in DOMAIN report |->
        <<IntCell(report[n].isin), report[n].date, IntCell(report[n].opening_price),
          IntCell(report[n].closing_price), IntCell(report[n].minimum_price),
          IntCell(report[n].maximum_price), IntCell(report[n].daily_traded_volume),
          report[n].change_prev_closing>>]

\* datetime.today().strftime(trg_key_date_format) with the format of the
\* configuration, "%Y%m%d_%H%M%S", on day now at sec seconds after midnight
KeyStamp(now, sec) ==
    Padded(FromOrdinal(now).year, 4) \o Padded(FromOrdinal(now).month, 2)
        \o Padded(FromOrdinal(now).day, 2) \o <<Underscore>>
        \o Padded(sec \div 3600, 2) \o Padded((sec \div 60) % 60, 2) \o Padded(sec % 60, 2)

\* the target key of load_to_s3: trg_key, the formatted time of the write and
\* the format
TargetKey(now, sec) ==
    [prefix |-> "report1", stamp |-> KeyStamp(now, sec), format |-> trg_format]

Init ==
    /\ src_first_extract_date \in FirstDates
    /\ trg_format \in TrgFormats
    /\ trg_bucket \in Buckets
    /\ today \in Days
    /\ meta_file \in [Buckets -> RunLedgers]
    /\ meta_file["trg"] = AbsentObj
    /\ src_objects \in SrcContents
    /\ trg_objects = {}
    /\ etl = NoEtl
    /\ runs = 0
    /\ appends = {}
    /\ trail = <<>>
    /\ xf = NoXf
    /\ s3 = NoS3
    /\ second = 0
    /\ race = NoRace

RunUnchanged ==
    UNCHANGED <<src_first_extract_date, trg_format, trg_bucket, src_objects, trail, xf, s3,
                race>>

\* XetraETL.__init__: the window is computed from the meta file of the source
\* bucket connector
Construct(io) ==
    LET r == return_date_list(meta_file[SrcBucket], src_first_extract_date, today, io)
    IN  /\ etl.pc \in {"idle", "done", "failed"}
        /\ runs < MaxRuns
        /\ runs' = runs + 1
        /\ etl' = [NoEtl EXCEPT
                     !.pc = IF r.raised = "none" THEN "constructed" ELSE "failed",
                     !.raised = r.raised,
                     !.extract_date = r.min_date,
                     !.extract_date_list = r.return_dates,
                     !.meta_update_list = meta_update_list(r.min_date, r.return_dates),
                     !.after_ok = (etl.pc = "done" /\ etl.day = today),
                     !.day = today,
                     !.meta_before = meta_file,
                     !.trg_before = trg_objects,
                     !.prev = [aborted |-> /\ etl.pc = "failed"
                                           /\ etl.extract_date # <<>>
                                           /\ etl.day = today,
                               same_window |-> /\ r.min_date = etl.extract_date
                                               /\ r.return_dates = etl.extract_date_list]]
        /\ UNCHANGED <<today, meta_file, trg_objects, appends, second>>
        /\ RunUnchanged

\* etl_report1: self.extract()
Extract ==
    LET r == extract(src_objects, etl.extract_date_list)
    IN  /\ etl.pc = "constructed"
        /\ etl' = [etl EXCEPT !.pc = IF r.raised = "none" THEN "extracted" ELSE "failed",
                              !.raised = r.raised,
                              !.data_frame = r.data_frame,
                              !.files_read = FilesOf(src_objects, etl.extract_date_list)]
        /\ UNCHANGED <<today, meta_file, trg_objects, runs, appends, second>>
        /\ RunUnchanged

\* etl_report1: self.transform_report1(data_frame)
Transform ==
    /\ etl.pc = "extracted"
    /\ etl' = [etl EXCEPT !.pc = "transformed",
                          !.report = transform_report1(etl.data_frame, etl.extract_date).rows]
    /\ UNCHANGED <<today, meta_file, trg_objects, runs, appends, second>>
    /\ RunUnchanged

\* mutant of LoadReport: an exception of the report write is swallowed and
\* load_to_s3 goes on
LoadReport_Swallow ==
    LET key == TargetKey(today, second)
        w == write_df_to_s3(AbsentObj, ReportColumns, ReportCells(etl.report), trg_format)
    IN  /\ etl.pc = "transformed"
        /\ etl' = [etl EXCEPT !.pc = "written", !.raised = w.raised, !.stored = w.wrote]
        /\ trg_objects' = IF w.wrote
                          THEN {o \in trg_objects : o.key # key}
                                   \cup {[key |-> key, rows |-> etl.report]}
                          ELSE trg_objects
        /\ UNCHANGED <<today, meta_file, runs, appends, second>>
        /\ RunUnchanged

\* load_to_s3: the report is written to the target bucket
LoadReport ==
    LET key == TargetKey(today, second)
        w == write_df_to_s3(AbsentObj, ReportColumns, ReportCells(etl.report), trg_format)
    IN  /\ etl.pc = "transformed"
        /\ etl' = [etl EXCEPT !.pc = IF w.raised = "none" THEN "written" ELSE "failed",
                              !.raised = w.raised,
                              !.stored = w.wrote]
        /\ trg_objects' = IF w.wrote
                          THEN {o \in trg_objects : o.key # key}
                                   \cup {[key |-> key, rows |-> etl.report]}
                          ELSE trg_objects
        /\ UNCHANGED <<today, meta_file, runs, appends, second>>
        /\ RunUnchanged

\* load_to_s3: the meta file of the target bucket connector is updated
LoadMeta(io) ==
    LET old == meta_file[trg_bucket]
        r == update_meta_file(old, etl.meta_update_list, today, io)
        new == SubSeq(r.obj.rows, Len(old.rows) + 1, Len(r.obj.rows))
    IN  /\ etl.pc = "written"
        /\ meta_file' = [meta_file EXCEPT ![trg_bucket] = r.obj]
        /\ etl' = [etl EXCEPT !.pc = IF r.raised = "none" THEN "done" ELSE "failed",
                              !.raised = r.raised,
                              !.appended = [i \in DOMAIN new |-> new[i][1]]]
        /\ appends' = appends \cup
                        {[run |-> runs, date |-> new[i][1], stored |-> etl.stored] :
                            i \in DOMAIN new}
        /\ UNCHANGED <<today, trg_objects, runs, second>>
        /\ RunUnchanged

\* the calendar day ends: between two runs, or between the construction of
\* the instance and etl_report1 (extract and transform do not read the clock)
AdvanceDay ==
    /\ etl.pc \in {"idle", "constructed", "done", "failed"}
    /\ runs < MaxRuns \/ etl.pc = "constructed"
    /\ today < CalStart + CalDays - 1
    /\ today' = today + 1
    /\ second' = 0
    /\ UNCHANGED <<meta_file, trg_objects, etl, runs, appends>>
    /\ RunUnchanged

Next ==
    \/ \E io \in IO : Construct(io)
    \/ Extract
    \/ Transform
    \/ LoadReport
    \/ \E io \in IO : LoadMeta(io)
    \/ AdvanceDay

Spec == Init /\ [][Next]_vars

----------------------------------------------------------------------------
(* Claims on the pipeline, checked under Spec *)

\* C5: every source date a run appended to the ledger was appended after the
\* run's report write had stored a report object in the target bucket
C5_LedgerDatesHaveReport == \A a \in appends : a.stored

\* C6: the ledger a run updates is the ledger its window was computed from, so
\* an instance constructed on the same day after a successful etl_report1 has
\* an empty extract_date_list and writes neither a report nor ledger entries
C6_SameLedgerIdempotent ==
    /\ (etl.pc = "done" /\ etl.appended # <<>>) => trg_bucket = SrcBucket
    /\ (etl.after_ok /\ etl.pc # "failed") =>
           /\ etl.extract_date_list = <<>>
           /\ ~etl.stored
           /\ etl.appended = <<>>

\* C9: the dates a run appends to the ledger are exactly the dates of its
\* extract_date_list that are not before the cutoff, in the order of the list;
\* the day before the cutoff is never appended
C9_AppendsDatesFromCutoff ==
    etl.pc = "done" =>
        /\ etl.appended =
               SelectSeq(etl.extract_date_list,
                         LAMBDA d : strptime(d) >= strptime(etl.extract_date))
        /\ etl.extract_date # Sentinel =>
               \A i \in DOMAIN etl.appended :
                   etl.appended[i] # strftime(strptime(etl.extract_date) - 1)

\* the rows of the tables stored in objs, one table after the other
RECURSIVE RowsOfObjects(_)
RowsOfObjects(objs) ==
    IF objs = <<>> THEN <<>>
    ELSE [i \in DOMAIN objs[1].rows |-> AsSrcRow(read_csv(objs[1].rows)[i])]
             \o RowsOfObjects(Tail(objs))

\* the rows of every object whose key starts with one of the dates
RECURSIVE RowsUnderDates(_, _)
RowsUnderDates(objects, dates) ==
    IF dates = <<>> THEN <<>>
    ELSE RowsOfObjects(SelectSeq(objects, LAMBDA o : StartsWith(o.key, dates[1])))
             \o RowsUnderDates(objects, Tail(dates))

\* C16: extract does not raise and returns the concatenation of the rows of
\* every source object whose key starts with one of the dates of the date
\* list: the empty table when there is no such object or no date
C16_ExtractConcatenates ==
    /\ ~(etl.pc = "failed" /\ etl.raised = "ValueError")
    /\ etl.pc = "extracted" =>
           etl.data_frame = RowsUnderDates(src_objects, etl.extract_date_list)

\* C21: a run that aborts leaves the ledger of both buckets as it was when the
\* run was constructed, and a run constructed on the same day after an aborted
\* run that had computed its window computes the same cutoff and the same date
\* list
C21_AbortedRunRepeatsWindow ==
    /\ etl.pc = "failed" => meta_file = etl.meta_before
    /\ (etl.prev.aborted /\ etl.extract_date # <<>>) => etl.prev.same_window

\* C21 witness: a run was aborted after it had stored its report, and the run
\* constructed after it on the same day has the same window of several dates
C21_Witness ==
    /\ etl.prev.aborted
    /\ etl.trg_before # {}
    /\ etl.prev.same_window
    /\ Len(etl.extract_date_list) >= 2

\* C24: a run extracts, then transforms, then writes the report, then updates
\* the ledger: the ledger changes only in a step taken after the report write
\* has returned, and once the report write has raised WrongFormatException the
\* run has failed and no step of it changes the ledger
C24_StepOrder ==
    [][/\ (etl'.pc = "extracted") => etl.pc = "constructed"
       /\ (etl'.pc = "transformed") => etl.pc \in {"extracted", "transformed"}
       /\ (etl'.pc = "written") => etl.pc \in {"transformed", "written"}
       /\ (etl'.pc = "done") => etl.pc \in {"written", "done"}
       /\ (meta_file' # meta_file) => (etl.pc = "written" /\ etl'.pc = "done")
       /\ (etl'.raised = "WrongFormatException") =>
              /\ etl'.pc = "failed"
              /\ etl.pc \in {"transformed", "failed"}
              /\ meta_file' = etl'.meta_before]_vars

\* C24 witness: the report write of a run with a report and with dates for the
\* ledger raised WrongFormatException, and the ledger is as it was
C24_Witness ==
    /\ etl.pc = "failed"
    /\ etl.raised = "WrongFormatException"
    /\ etl.report # <<>>
    /\ etl.meta_update_list # <<>>
    /\ meta_file = etl.meta_before

\* C25: a run constructed with the sentinel cutoff and an empty date list
\* neither fails nor changes anything: it reads no source object, stores no
\* report and leaves the report objects and the meta files of both buckets as
\* they were at its construction
C25_SentinelRunChangesNothing ==
    (etl.pc # "idle" /\ etl.extract_date = Sentinel /\ etl.extract_date_list = <<>>) =>
        /\ etl.pc # "failed"
        /\ etl.files_read = <<>>
        /\ etl.data_frame = <<>>
        /\ ~etl.stored
        /\ trg_objects = etl.trg_before
        /\ meta_file = etl.meta_before

\* C25 witness: such a run is done, with files in the source bucket and a
\* ledger that holds every date of the window
C25_Witness ==
    /\ etl.pc = "done"
    /\ etl.extract_date = Sentinel
    /\ etl.extract_date_list = <<>>
    /\ Len(src_objects) > 1
    /\ meta_file[SrcBucket].exists
    /\ etl.files_read = <<>>

\* the source dates of the entries of a ledger from entry n on
DatesFrom(rows, n) == [i \in 1 .. (Len(rows) - n + 1) |-> rows[n + i - 1][1]]

\* C29: no step of a sequence of runs takes an entry out of a ledger or
\* changes one: the entries before the step are a prefix of the entries after
\* it, and a ledger update appends every date of the run's window that is not
\* before the cutoff, whether or not the ledger holds it already
C29_LedgerOnlyGrows ==
    [][\A b \in Buckets :
          /\ Len(Entries(meta_file[b])) <= Len(Entries(meta_file'[b]))
          /\ SubSeq(Entries(meta_file'[b]), 1, Len(Entries(meta_file[b])))
                 = Entries(meta_file[b])
          /\ (meta_file'[b] # meta_file[b]) =>
                 DatesFrom(Entries(meta_file'[b]), Len(Entries(meta_file[b])) + 1)
                     = etl.meta_update_list]_vars

\* C29 witness: a run has appended a date the ledger held already, and the
\* ledger has two entries with this source date
C29_Witness ==
    /\ etl.pc = "done"
    /\ \E j \in DOMAIN etl.appended :
           /\ \E i \in DOMAIN etl.meta_before[trg_bucket].rows :
                  etl.meta_before[trg_bucket].rows[i][1] = etl.appended[j]
           /\ Cardinality({i \in DOMAIN meta_file[trg_bucket].rows :
                               meta_file[trg_bucket].rows[i][1] = etl.appended[j]}) >= 2

----------------------------------------------------------------------------
(* SpecRace: two runs that update the meta file of one bucket; the read and *)
(* the write of update_meta_file are two requests to the bucket             *)

RaceUnchanged ==
    UNCHANGED <<src_first_extract_date, trg_format, trg_bucket, src_objects, trg_objects,
                etl, runs, appends, trail, xf, s3>>

InitRace ==
    /\ src_first_extract_date \in FirstDates
    /\ today \in Days
    /\ meta_file \in [Buckets -> InitLedgers]
    /\ meta_file["src"] = AbsentObj
    /\ trg_format = "parquet"
    /\ trg_bucket = "trg"
    /\ src_objects = <<>>
    /\ trg_objects = {}
    /\ etl = NoEtl
    /\ runs = 0
    /\ appends = {}
    /\ trail = <<>>
    /\ xf = NoXf
    /\ s3 = NoS3
    /\ second = 0
    /\ race = NoRace

\* the run of process p is constructed and comes to update_meta_file with the
\* dates of its window that are not before the cutoff
RaceCall(p) ==
    LET r == return_date_list(meta_file[MetaBucket], src_first_extract_date, today, OkIO)
    IN  /\ race.pc[p] = "idle"
        /\ r.raised = "none"
        /\ race' = [race EXCEPT
                       !.pc[p] = "called",
                       !.dates[p] = meta_update_list(r.min_date, r.return_dates)]
        /\ UNCHANGED <<today, second, meta_file>>
        /\ RaceUnchanged

\* update_meta_file of process p returns for an empty date list, or else
\* makes df_new and reads the old meta file
RaceRead(p) ==
    /\ race.pc[p] = "called"
    /\ race' = IF race.dates[p] = <<>>
               THEN [race EXCEPT !.pc[p] = "done"]
               ELSE [race EXCEPT !.pc[p] = "read", !.now[p] = today,
                                 !.df_old[p] = meta_file[MetaBucket]]
    /\ UNCHANGED <<today, second, meta_file>>
    /\ RaceUnchanged

\* mutant of RaceWrite: the read and the write are one request, the rows are
\* added to the meta file as it is at the write
RaceWrite_Atomic(p) ==
    LET r == update_meta_file(meta_file[MetaBucket], race.dates[p], race.now[p], OkIO)
    IN  /\ race.pc[p] = "read"
        /\ meta_file' = [meta_file EXCEPT ![MetaBucket] = r.obj]
        /\ race' = [race EXCEPT !.pc[p] = "done", !.wrote = Append(race.wrote, p)]
        /\ UNCHANGED <<today, second>>
        /\ RaceUnchanged

\* update_meta_file of process p writes the old meta file it has read and its
\* new rows over the meta file
RaceWrite(p) ==
    LET r == update_meta_file(race.df_old[p], race.dates[p], race.now[p], OkIO)
    IN  /\ race.pc[p] = "read"
        /\ meta_file' = [meta_file EXCEPT ![MetaBucket] = r.obj]
        /\ race' = [race EXCEPT !.pc[p] = "done", !.wrote = Append(race.wrote, p)]
        /\ UNCHANGED <<today, second>>
        /\ RaceUnchanged

NextRace ==
    \/ \E p \in Updaters : RaceCall(p)
    \/ \E p \in Updaters : RaceRead(p)
    \/ \E p \in Updaters : RaceWrite(p)
    \/ AdvanceDay

SpecRace == InitRace /\ [][NextRace]_vars

\* both processes have read the meta file before either of them wrote, and both
\* have written
BothWroteOverlapping ==
    /\ Len(race.wrote) = 2
    /\ race.df_old[1] = race.df_old[2]

\* C22: when two runs have both read the ledger before either of them wrote
\* it, the stored ledger is the ledger they read followed by the entries of the
\* run that wrote last, and nothing of the entries of the run that wrote first
C22_LastWriterWins ==
    BothWroteOverlapping =>
        LET old == Entries(race.df_old[1])
            last == race.wrote[2]
            new == meta_file[MetaBucket].rows
        IN  /\ Len(new) = Len(old) + Len(race.dates[last])
            /\ SubSeq(new, 1, Len(old)) = old
            /\ \A j \in DOMAIN race.dates[last] :
                   new[Len(old) + j][1] = race.dates[last][j]

\* C22 witness: both runs wrote, and a date that the run that wrote first
\* appended is in no entry of the stored ledger
C22_Witness ==
    /\ BothWroteOverlapping
    /\ \E j \in DOMAIN race.dates[race.wrote[1]] :
           \A i \in DOMAIN meta_file[MetaBucket].rows :
               meta_file[MetaBucket].rows[i][1] # race.dates[race.wrote[1]][j]

----------------------------------------------------------------------------
(* SpecClock: runs of the pipeline while the wall clock ticks in seconds *)

InitClock ==
    /\ src_first_extract_date = strftime(CalStart)
    /\ trg_format \in TrgFormats
    /\ trg_bucket \in Buckets
    /\ today = CalStart
    /\ meta_file = [b \in Buckets |-> AbsentObj]
    /\ src_objects \in SrcContents
    /\ trg_objects = {}
    /\ etl = NoEtl
    /\ runs = 0
    /\ appends = {}
    /\ trail = <<>>
    /\ xf = NoXf
    /\ s3 = NoS3
    /\ second = 0
    /\ race = NoRace

\* a second passes
Tick ==
    /\ second < MaxSeconds
    /\ second' = second + 1
    /\ UNCHANGED <<today, meta_file, trg_objects, etl, runs, appends>>
    /\ RunUnchanged

NextClock ==
    \/ Next
    \/ Tick

SpecClock == InitClock /\ [][NextClock]_vars

\* C23: a run that stores a report stores it under a key that held no report
\* before, so the bucket has one report object more than when the run was
\* constructed and every earlier report is still there
C23_ReportNeverOverwritten ==
    etl.stored =>
        /\ Cardinality(trg_objects) = Cardinality(etl.trg_before) + 1
        /\ etl.trg_before \subseteq trg_objects

====
